---- MODULE Spec2Model ----
(***************************************************************************)
(* Execution-plan orchestrator of the design assistant:                    *)
(*   createExecutionPlan / executePlan        (src/agent/index.ts)         *)
(*   the project store and its updaters       (src/types.ts, ProjectProvider) *)
(*   the two generation collaborators         (src/unnamed/part_007 and    *)
(*                                             src/services/marketplaceService.ts) *)
(*                                                                         *)
(* JavaScript strings are sequences of text chunks (a chunk is a piece of  *)
(* text that is never split by the operations used here), so startsWith,   *)
(* includes and template concatenation are computed, not assumed.          *)
(* JavaScript values that may be undefined / null / string / object are    *)
(* tagged records.  ISO timestamps (startedAt, completedAt, createdAt) are *)
(* written by the code but read by nothing and are left out.               *)
(***************************************************************************)
EXTENDS Integers, Sequences, FiniteSets, TLC

(* ------------------------------ bounds --------------------------------- *)
\* Date.now() values a plan can be created at
MaxClock == 2

(* ------------------------- JavaScript values --------------------------- *)
Undefined == [t |-> "undefined"]
Null == [t |-> "null"]
Str(chunks) == [t |-> "string", s |-> chunks]

\* mutant: the empty string counts as truthy
Truthy_EmptyStringTruthy(v) ==
    CASE v.t = "undefined" -> FALSE
      [] v.t = "null" -> FALSE
      [] OTHER -> TRUE

\* JS truthiness, as used by `!plan.modelId` and `!description`
Truthy(v) ==
    CASE v.t = "undefined" -> FALSE
      [] v.t = "null" -> FALSE
      [] v.t = "string" -> v.s # <<>>
      [] OTHER -> TRUE

\* mutant: equality instead of prefix test
StartsWith_Exact(s, prefix) == s = prefix

\* String.prototype.startsWith on chunk sequences
StartsWith(s, prefix) ==
    /\ Len(s) >= Len(prefix)
    /\ SubSeq(s, 1, Len(prefix)) = prefix

\* String.prototype.includes on chunk sequences
Includes(s, sub) ==
    \E k \in 0..(Len(s) - Len(sub)) : SubSeq(s, k + 1, k + Len(sub)) = sub

\* mutant: { ...updates, ...entity }
Merge_EntityWins(entity, updates) ==
    [k \in (DOMAIN entity) \cup (DOMAIN updates) |->
        IF k \in DOMAIN entity THEN entity[k] ELSE updates[k]]

\* { ...entity, ...updates }
Merge(entity, updates) ==
    [k \in (DOMAIN entity) \cup (DOMAIN updates) |->
        IF k \in DOMAIN updates THEN updates[k] ELSE entity[k]]

\* mutant: the property is never found
Get_AlwaysUndefined(obj, k) == Undefined

\* property read: a missing property reads as undefined
Get(obj, k) == IF k \in DOMAIN obj THEN obj[k] ELSE Undefined

\* Array.prototype.includes
ArrayIncludes(seq, x) == \E k \in 1..Len(seq) : seq[k] = x

(* --------------------------- status enums ------------------------------ *)
TaskStatus == [PENDING |-> "PENDING", IN_PROGRESS |-> "IN_PROGRESS",
               COMPLETED |-> "COMPLETED", FAILED |-> "FAILED"]

ModelStatus == [PENDING |-> "PENDING", GENERATING |-> "GENERATING",
                COMPLETED |-> "COMPLETED", FAILED |-> "FAILED"]

Tools == [INITIAL_MODEL_GENERATOR |-> "INITIAL_MODEL_GENERATOR",
          MODEL_REFINER |-> "MODEL_REFINER"]

(* ----------------------------- Plan Builder ---------------------------- *)
\* `plan-${Date.now()}` and `${planId}-task-N`
PlanId(now) == <<"plan-", ToString(now)>>
TaskId(planId, n) == planId \o <<"-task-", ToString(n)>>

\* mutant: tasks are created already IN_PROGRESS
NewTask_InProgress(id, name, toolName, arguments) ==
    [id |-> id, name |-> name, status |-> TaskStatus.IN_PROGRESS,
     toolName |-> toolName, arguments |-> arguments,
     result |-> Undefined, error |-> Undefined]

NewTask(id, name, toolName, arguments) ==
    [id |-> id, name |-> name, status |-> TaskStatus.PENDING,
     toolName |-> toolName, arguments |-> arguments,
     result |-> Undefined, error |-> Undefined]

\* mutant: an unsupported goal is treated as 'generate'
createExecutionPlan_DefaultsToGenerate(goal, args, systemPrompt, now) ==
    LET planId == PlanId(now)
        tasks ==
            IF goal = "refine" THEN
                << NewTask(TaskId(planId, 1),
                           <<"Re-analyzing Inputs & Refining ", "Brief">>,
                           Tools.MODEL_REFINER,
                           [inputIds |-> args.inputIds,
                            refinementText |-> args.refinementText]),
                   NewTask(TaskId(planId, 2),
                           <<"Generating Refined ", "Geometry & Materials">>,
                           Tools.MODEL_REFINER,
                           [x \in {} |-> Undefined]) >>
            ELSE
                << NewTask(TaskId(planId, 1),
                           <<"Analyzing Inputs & Creating ", "Brief">>,
                           Tools.INITIAL_MODEL_GENERATOR,
                           [inputIds |-> args.inputIds]),
                   NewTask(TaskId(planId, 2),
                           <<"Generating 3D ", "Geometry & Materials">>,
                           Tools.INITIAL_MODEL_GENERATOR,
                           [x \in {} |-> Undefined]) >>
        planGoal ==
            IF goal = "refine"
                THEN <<"Refine", " an existing 3D model based on new instructions.">>
            ELSE <<"Create a new 3D model from selected inputs.">>
    IN  [id |-> planId, goal |-> planGoal, tasks |-> tasks,
         status |-> TaskStatus.PENDING, modelId |-> args.modelId,
         systemPrompt |-> systemPrompt]

createExecutionPlan(goal, args, systemPrompt, now) ==
    LET planId == PlanId(now)
        tasks ==
            IF goal = "generate" THEN
                << NewTask(TaskId(planId, 1),
                           <<"Analyzing Inputs & Creating ", "Brief">>,
                           Tools.INITIAL_MODEL_GENERATOR,
                           [inputIds |-> args.inputIds]),
                   NewTask(TaskId(planId, 2),
                           <<"Generating 3D ", "Geometry & Materials">>,
                           Tools.INITIAL_MODEL_GENERATOR,
                           [x \in {} |-> Undefined]) >>
            ELSE IF goal = "refine" THEN
                << NewTask(TaskId(planId, 1),
                           <<"Re-analyzing Inputs & Refining ", "Brief">>,
                           Tools.MODEL_REFINER,
                           [inputIds |-> args.inputIds,
                            refinementText |-> args.refinementText]),
                   NewTask(TaskId(planId, 2),
                           <<"Generating Refined ", "Geometry & Materials">>,
                           Tools.MODEL_REFINER,
                           [x \in {} |-> Undefined]) >>
            ELSE <<>>
        planGoal ==
            IF goal = "generate"
                THEN <<"Create a new 3D model from selected inputs.">>
            ELSE IF goal = "refine"
                THEN <<"Refine", " an existing 3D model based on new instructions.">>
            ELSE <<>>
    IN  [id |-> planId, goal |-> planGoal, tasks |-> tasks,
         status |-> TaskStatus.PENDING, modelId |-> args.modelId,
         systemPrompt |-> systemPrompt]

(* --------------------------- project store ----------------------------- *)
ProjectId == "proj-1"

\* the design inputs of the project
ProjectInputs ==
    << [id |-> "input-1", type |-> "TEXT", data |-> <<"A 20m wide steel portal frame">>],
       [id |-> "input-2", type |-> "TEXT", data |-> <<"Eave height 6m">>] >>

getInitialProjects ==
    << [id |-> ProjectId, inputs |-> ProjectInputs, models |-> <<>>, plans |-> <<>>] >>

\* project.inputs.filter(input => inputIds.includes(input.id))
RECURSIVE FilterInputs(_, _)
FilterInputs(inputs, inputIds) ==
    IF inputs = <<>> THEN <<>>
    ELSE (IF ArrayIncludes(inputIds, Head(inputs).id) THEN <<Head(inputs)>> ELSE <<>>)
         \o FilterInputs(Tail(inputs), inputIds)

\* projects.find(p => p.id === projectId), as an index (0 = not found)
FindProject(ps, projectId) ==
    IF \E k \in 1..Len(ps) : ps[k].id = projectId
    THEN CHOOSE k \in 1..Len(ps) :
            ps[k].id = projectId /\ \A j \in 1..(k - 1) : ps[j].id # projectId
    ELSE 0

getInputsByIds(ps, projectId, inputIds) ==
    LET k == FindProject(ps, projectId)
    IN  IF k = 0 THEN <<>> ELSE FilterInputs(ps[k].inputs, inputIds)

addModelToProject(ps, projectId, newModel) ==
    LET OnProject(p) ==
            IF p.id = projectId
            THEN [p EXCEPT !.models = <<newModel>> \o p.models] ELSE p
    IN  [n \in DOMAIN ps |-> OnProject(ps[n])]

addPlanToProject(ps, projectId, newPlan) ==
    LET OnProject(p) ==
            IF p.id = projectId
            THEN [p EXCEPT !.plans = <<newPlan>> \o p.plans] ELSE p
    IN  [n \in DOMAIN ps |-> OnProject(ps[n])]

\* mutant: the updates are merged into every model of the project
updateModel_AllModels(ps, projectId, modelId, updates) ==
    LET OnProject(p) ==
            IF p.id = projectId
            THEN [p EXCEPT !.models = [n \in DOMAIN p.models |-> Merge(p.models[n], updates)]]
            ELSE p
    IN  [n \in DOMAIN ps |-> OnProject(ps[n])]

updateModel(ps, projectId, modelId, updates) ==
    LET OnModel(m) == IF m.id = modelId THEN Merge(m, updates) ELSE m
        OnProject(p) ==
            IF p.id = projectId
            THEN [p EXCEPT !.models = [n \in DOMAIN p.models |-> OnModel(p.models[n])]] ELSE p
    IN  [n \in DOMAIN ps |-> OnProject(ps[n])]

\* mutant: the updates are merged into every plan of the project
updatePlan_AllPlans(ps, projectId, planId, updates) ==
    LET OnProject(p) ==
            IF p.id = projectId
            THEN [p EXCEPT !.plans = [n \in DOMAIN p.plans |-> Merge(p.plans[n], updates)]]
            ELSE p
    IN  [n \in DOMAIN ps |-> OnProject(ps[n])]

updatePlan(ps, projectId, planId, updates) ==
    LET OnPlan(pl) == IF pl.id = planId THEN Merge(pl, updates) ELSE pl
        OnProject(p) ==
            IF p.id = projectId
            THEN [p EXCEPT !.plans = [n \in DOMAIN p.plans |-> OnPlan(p.plans[n])]] ELSE p
    IN  [n \in DOMAIN ps |-> OnProject(ps[n])]

\* mutant: the task is looked up by the plan's id and never found
updateTaskInPlan_WrongId(ps, projectId, planId, taskId, updates) ==
    LET OnTask(task) == IF task.id = planId THEN Merge(task, updates) ELSE task
        OnPlan(pl) ==
            IF pl.id = planId
            THEN [pl EXCEPT !.tasks = [n \in DOMAIN pl.tasks |-> OnTask(pl.tasks[n])]] ELSE pl
        OnProject(p) ==
            IF p.id = projectId
            THEN [p EXCEPT !.plans = [n \in DOMAIN p.plans |-> OnPlan(p.plans[n])]] ELSE p
    IN  [n \in DOMAIN ps |-> OnProject(ps[n])]

updateTaskInPlan(ps, projectId, planId, taskId, updates) ==
    LET OnTask(task) == IF task.id = taskId THEN Merge(task, updates) ELSE task
        OnPlan(pl) ==
            IF pl.id = planId
            THEN [pl EXCEPT !.tasks = [n \in DOMAIN pl.tasks |-> OnTask(pl.tasks[n])]] ELSE pl
        OnProject(p) ==
            IF p.id = projectId
            THEN [p EXCEPT !.plans = [n \in DOMAIN p.plans |-> OnPlan(p.plans[n])]] ELSE p
    IN  [n \in DOMAIN ps |-> OnProject(ps[n])]

(* ----------------------- generation collaborators ---------------------- *)
\* What the AI backend does on one generateContent call for a description:
\* it answers with a text, or the call throws an Error, or it throws a
\* value that is not an Error.
DescriptionBackend ==
    { [kind |-> "text", text |-> <<"A 10m steel frame">>],
      [kind |-> "text", text |-> <<>>],
      [kind |-> "text", text |-> <<"Failed", ": network error">>],
      [kind |-> "throwError", message |-> <<"network error">>],
      [kind |-> "throwOther"] }

generateModelDescription(inputs, refinementText, systemPrompt, backend) ==
    CASE backend.kind = "text" -> Str(backend.text)
      [] backend.kind = "throwError" ->
            Str(<<"Failed", " to generate model: ">> \o backend.message)
      [] OTHER -> Str(<<"An unknown error occurred during model generation.">>)

MAX_RETRIES == 3

\* what one attempt of generateModelData gets from the backend
AttemptOutcomes == {"valid", "invalid"}

ValidModelData ==
    [t |-> "object",
     modelCode |-> Str(<<"export default", " function Model(props) {}">>),
     billOfMaterials |-> [t |-> "array",
                          items |-> <<[component |-> "IPE 300 column", quantity |-> 4,
                                       estimatedMaterial |-> "S235"]>>],
     engineeringRationale |-> Str(<<"Portal frame with pinned bases.">>)]

InvalidDataMessage == <<"Generated code is missing a default export.">>

\* the two versions of geminiService.generateModelData in the repository
ServiceVersions == {"returning", "throwing"}

\* Result of generateModelData: [ok |-> TRUE, value |-> bundle] when the
\* promise resolves, [ok |-> FALSE, message |-> m] when it rejects with
\* Error(m).  attempts[k] is what attempt k gets from the backend.
RECURSIVE ModelDataAttempt(_, _, _)
ModelDataAttempt(attempt, attempts, version) ==
    IF attempt > MAX_RETRIES THEN
        [ok |-> FALSE,
         message |-> IF version = "returning"
                     THEN <<"Model generation failed after all retries.">>
                     ELSE <<"Failed", " to generate model data after all ",
                            ToString(MAX_RETRIES), " retries.">>]
    ELSE IF attempts[attempt] = "valid" THEN
        [ok |-> TRUE, value |-> ValidModelData]
    ELSE IF attempt = MAX_RETRIES THEN
        IF version = "returning" THEN
            [ok |-> TRUE,
             value |-> [t |-> "object",
                        modelCode |-> Str(<<"// Generation ", "Failed", " after ",
                                            ToString(MAX_RETRIES), " attempts: ">>
                                          \o InvalidDataMessage),
                        billOfMaterials |-> [t |-> "array", items |-> <<>>],
                        engineeringRationale |->
                            Str(<<"Failed", " to generate a valid model. Last error: ">>
                                \o InvalidDataMessage)]]
        ELSE
            [ok |-> FALSE,
             message |-> <<"Failed", " to generate model data after ",
                           ToString(MAX_RETRIES), " attempts: ">> \o InvalidDataMessage]
    ELSE ModelDataAttempt(attempt + 1, attempts, version)

generateModelData(description, systemPrompt, attempts, version) ==
    ModelDataAttempt(1, attempts, version)

(* ------------------------------- state --------------------------------- *)
VARIABLES
    projects,            \* the project store (ProjectProvider state)
    version,             \* which geminiService version is linked in
    plan,                \* the plan object handed to executePlan
    pc,                  \* position of the executePlan invocation
    i,                   \* loop index of executePlan (1-based)
    previousTaskResult,  \* executePlan local
    currentTaskResult,   \* executePlan local
    error,               \* message of the error caught by the handler
    calls,               \* every updater / collaborator call made so far
    request,             \* the arguments createExecutionPlan was called with
    suspended,           \* the other executePlan invocation, parked at an await
    currentModel         \* ProjectView state: the model shown in the viewer

vars == <<projects, version, plan, pc, i, previousTaskResult,
          currentTaskResult, error, calls, request, suspended, currentModel>>

\* the locals of the invocation that is running
Locals ==
    [plan |-> plan, pc |-> pc, i |-> i,
     previousTaskResult |-> previousTaskResult,
     currentTaskResult |-> currentTaskResult,
     error |-> error, calls |-> calls, request |-> request]

\* an invocation that has not been made yet
IdleLocals ==
    [plan |-> Null, pc |-> "idle", i |-> 0,
     previousTaskResult |-> Null, currentTaskResult |-> Undefined,
     error |-> Undefined, calls |-> <<>>, request |-> Null]

\* a project found in localStorage by an earlier session: one completed model
StoredModel ==
    [id |-> Str(<<"model-", "0">>), projectId |-> ProjectId,
     status |-> ModelStatus.COMPLETED,
     description |-> Str(<<"A 10m steel frame">>),
     inputIds |-> <<"input-1">>, refinementOf |-> Undefined,
     modelCode |-> ValidModelData.modelCode,
     billOfMaterials |-> ValidModelData.billOfMaterials,
     engineeringRationale |-> ValidModelData.engineeringRationale,
     failureReason |-> Undefined]

\* a second project of the earlier session, with a model and a finished plan
OtherProject ==
    LET finished(task) == [task EXCEPT !.status = TaskStatus.COMPLETED]
        built == createExecutionPlan("generate",
                     [inputIds |-> <<>>, modelId |-> Str(<<"model-", "00">>)],
                     Undefined, 0)
    IN  [id |-> "proj-2", inputs |-> <<>>,
         models |-> << [StoredModel EXCEPT !.id = Str(<<"model-", "00">>),
                                           !.projectId = "proj-2",
                                           !.inputIds = <<>>] >>,
         plans |-> << [built EXCEPT !.status = TaskStatus.COMPLETED,
                                    !.tasks = [n \in DOMAIN built.tasks |->
                                                  finished(built.tasks[n])]] >>]

StoredProjects ==
    << [id |-> ProjectId, inputs |-> ProjectInputs,
        models |-> <<StoredModel>>, plans |-> <<>>],
       OtherProject >>

\* the personas' system prompts (undefined: no active persona)
SystemPrompts == {Undefined, Str(<<"You are a seasoned structural engineer.">>)}

RefinementTexts == {Str(<<"raise the roof pitch">>), Str(<<>>)}

Clock == 1..MaxClock

Init ==
    /\ projects \in {getInitialProjects, StoredProjects}
    /\ version \in ServiceVersions
    /\ plan = Null
    /\ pc = "idle"
    /\ i = 0
    /\ previousTaskResult = Null
    /\ currentTaskResult = Undefined
    /\ error = Undefined
    /\ calls = <<>>
    /\ request = Null
    /\ suspended = IdleLocals
    /\ currentModel = Null

(* ------------------------------ callers -------------------------------- *)
NewModel(id, description, inputIds, refinementOf) ==
    [id |-> id, projectId |-> ProjectId, status |-> ModelStatus.PENDING,
     description |-> description, inputIds |-> inputIds,
     refinementOf |-> refinementOf,
     modelCode |-> Undefined, billOfMaterials |-> Undefined,
     engineeringRationale |-> Undefined, failureReason |-> Undefined]

ModelId(now) == Str(<<"model-", ToString(now)>>)

\* the project shown by ProjectView
TheProject == projects[FindProject(projects, ProjectId)]

\* selections the user can make in the input list
InputSelections == {<<"input-1">>, <<"input-1", "input-2">>}

handleGenerateModel ==
    /\ pc = "idle"
    /\ \E inputIds \in InputSelections, systemPrompt \in SystemPrompts, now \in Clock :
        LET newModelId == ModelId(now)
            newPlan == createExecutionPlan("generate",
                           [inputIds |-> inputIds, modelId |-> newModelId],
                           systemPrompt, now)
        IN  /\ projects' = addPlanToProject(
                    addModelToProject(projects, ProjectId,
                        NewModel(newModelId, Str(<<"Waiting for AI agent to start...">>),
                                 inputIds, Undefined)),
                    ProjectId, newPlan)
            /\ plan' = newPlan
            /\ request' = [goal |-> "generate", inputIds |-> inputIds,
                           refinementText |-> Undefined, modelId |-> newModelId,
                           systemPrompt |-> systemPrompt, now |-> now,
                           context |-> projects, continuation |-> FALSE]
    /\ pc' = "start"
    /\ UNCHANGED <<currentModel, suspended, version, i, previousTaskResult, currentTaskResult, error, calls>>

handleRefineModel ==
    /\ pc = "idle"
    /\ \E k \in 1..Len(TheProject.models), refinementText \in RefinementTexts,
          systemPrompt \in SystemPrompts, now \in Clock :
        LET refined == TheProject.models[k]
            newModelId == ModelId(now)
            newPlan == createExecutionPlan("refine",
                           [inputIds |-> refined.inputIds,
                            refinementText |-> refinementText,
                            modelId |-> newModelId],
                           systemPrompt, now)
        IN  /\ refined.status = ModelStatus.COMPLETED
            /\ projects' = addPlanToProject(
                    addModelToProject(projects, ProjectId,
                        NewModel(newModelId, Str(<<"Waiting for AI agent to refine...">>),
                                 refined.inputIds, refined.id)),
                    ProjectId, newPlan)
            /\ plan' = newPlan
            /\ request' = [goal |-> "refine", inputIds |-> refined.inputIds,
                           refinementText |-> refinementText, modelId |-> newModelId,
                           systemPrompt |-> systemPrompt, now |-> now,
                           context |-> projects, continuation |-> TRUE]
    /\ pc' = "start"
    /\ UNCHANGED <<currentModel, suspended, version, i, previousTaskResult, currentTaskResult, error, calls>>

\* Arguments the two handlers never pass but the exported functions accept:
\* a goal that is neither 'generate' nor 'refine', a missing or empty
\* modelId, input ids that are not in the project.
DirectGoals == {"generate", "refine", "other"}
DirectModelIds == {Undefined, Str(<<>>), StoredModel.id}
DirectInputIds == {<<"input-1">>, <<"input-9", "input-2">>}

callExecutePlan ==
    /\ pc = "idle"
    /\ \E goal \in DirectGoals, modelId \in DirectModelIds,
          inputIds \in DirectInputIds, systemPrompt \in SystemPrompts, now \in Clock :
        LET newPlan == createExecutionPlan(goal,
                           [inputIds |-> inputIds,
                            refinementText |-> Str(<<"raise the roof pitch">>),
                            modelId |-> modelId],
                           systemPrompt, now)
        IN  /\ \/ goal = "other"
               \/ modelId \in {Undefined, Str(<<>>)}
               \/ inputIds \notin InputSelections
            /\ modelId = StoredModel.id =>
                    \E k \in 1..Len(TheProject.models) : TheProject.models[k].id = modelId
            /\ projects' = addPlanToProject(projects, ProjectId, newPlan)
            /\ plan' = newPlan
            /\ request' = [goal |-> goal, inputIds |-> inputIds,
                           refinementText |-> Str(<<"raise the roof pitch">>),
                           modelId |-> modelId,
                           systemPrompt |-> systemPrompt, now |-> now,
                           context |-> projects, continuation |-> FALSE]
    /\ pc' = "start"
    /\ UNCHANGED <<currentModel, suspended, version, i, previousTaskResult, currentTaskResult, error, calls>>

(* ----------------------------- executePlan ----------------------------- *)
\* mutant: only the "Description" pattern selects the description branch
IsDescriptionTask_OnlyDescription(name) == Includes(name, <<"Description">>)

\* task.name.includes("Description") || task.name.includes("Brief")
IsDescriptionTask(name) ==
    Includes(name, <<"Description">>) \/ Includes(name, <<"Brief">>)

\* task.name.includes("Code & BOM") || task.name.includes("Geometry & Materials")
IsGeometryTask(name) ==
    Includes(name, <<"Code & BOM">>) \/ Includes(name, <<"Geometry & Materials">>)

\* mutant: the failure reason leaves out the task's name
FailureReason_OmitsName(name, errorMessage) ==
    Str(<<"Task failed: ">> \o errorMessage)

\* `Task "${task.name}" failed: ${errorMessage}`
FailureReason(name, errorMessage) ==
    Str(<<"Task \"">> \o name \o <<"\" failed: ">> \o errorMessage)

Log(call) == calls' = Append(calls, call)

\* if (!plan.modelId) { await updatePlan(FAILED); return; }
RejectPlan ==
    /\ pc = "start"
    /\ ~Truthy(plan.modelId)
    /\ projects' = updatePlan(projects, ProjectId, plan.id, [status |-> TaskStatus.FAILED])
    /\ Log([fn |-> "updatePlan", updates |-> [status |-> TaskStatus.FAILED]])
    /\ pc' = "done"
    /\ UNCHANGED <<currentModel, suspended, version, plan, i, previousTaskResult, currentTaskResult, error, request>>

\* mutant: the loop starts without marking the plan IN_PROGRESS
StartPlan_NoWrite ==
    /\ pc = "start"
    /\ Truthy(plan.modelId)
    /\ previousTaskResult' = Null
    /\ i' = 1
    /\ pc' = "loop"
    /\ UNCHANGED <<currentModel, suspended, projects, calls, version, plan, currentTaskResult, error, request>>

\* await updatePlan(IN_PROGRESS); let previousTaskResult = null; i = 0
StartPlan ==
    /\ pc = "start"
    /\ Truthy(plan.modelId)
    /\ projects' = updatePlan(projects, ProjectId, plan.id, [status |-> TaskStatus.IN_PROGRESS])
    /\ Log([fn |-> "updatePlan", updates |-> [status |-> TaskStatus.IN_PROGRESS]])
    /\ previousTaskResult' = Null
    /\ i' = 1
    /\ pc' = "loop"
    /\ UNCHANGED <<currentModel, suspended, version, plan, currentTaskResult, error, request>>

\* loop test passed; await updateTaskInPlan(IN_PROGRESS)
BeginTask ==
    /\ pc = "loop"
    /\ i <= Len(plan.tasks)
    /\ projects' = updateTaskInPlan(projects, ProjectId, plan.id, plan.tasks[i].id,
                                    [status |-> TaskStatus.IN_PROGRESS])
    /\ Log([fn |-> "updateTaskInPlan", task |-> i,
            updates |-> [status |-> TaskStatus.IN_PROGRESS]])
    /\ currentTaskResult' = Undefined
    /\ pc' = "run"
    /\ UNCHANGED <<currentModel, suspended, version, plan, i, previousTaskResult, error, request>>

\* the description branch, up to the updateModel call or the throw
RunDescription ==
    /\ pc = "run"
    /\ IsDescriptionTask(plan.tasks[i].name)
    /\ \E backend \in DescriptionBackend :
        LET task == plan.tasks[i]
            inputs == getInputsByIds(projects, ProjectId, task.arguments.inputIds)
            refinementText == Get(task.arguments, "refinementText")
            description == generateModelDescription(inputs, refinementText,
                                                    plan.systemPrompt, backend)
            call == [fn |-> "generateModelDescription", task |-> i, inputs |-> inputs,
                     refinementText |-> refinementText,
                     systemPrompt |-> plan.systemPrompt,
                     backend |-> backend.kind, returned |-> description]
            updates == [description |-> description, status |-> ModelStatus.GENERATING]
        IN  IF StartsWith(description.s, <<"Failed">>)
            THEN /\ error' = description
                 /\ calls' = Append(calls, call)
                 /\ pc' = "catch"
                 /\ UNCHANGED <<projects, currentTaskResult>>
            ELSE /\ currentTaskResult' = description
                 /\ projects' = updateModel(projects, ProjectId, plan.modelId, updates)
                 /\ calls' = calls \o <<call, [fn |-> "updateModel", task |-> i,
                                                updates |-> updates]>>
                 /\ pc' = "complete"
                 /\ UNCHANGED error
    /\ UNCHANGED <<currentModel, suspended, version, plan, i, previousTaskResult, request>>

\* the geometry branch (and the fall-through when the name matches neither
\* pattern), up to the updateModel call or the throw
RunGeometry ==
    /\ pc = "run"
    /\ ~IsDescriptionTask(plan.tasks[i].name)
    /\ IF IsGeometryTask(plan.tasks[i].name)
       THEN LET description == previousTaskResult IN
            IF ~Truthy(description)
            THEN /\ error' = Str(<<"Description from previous step was not available.">>)
                 /\ pc' = "catch"
                 /\ UNCHANGED <<projects, currentTaskResult, calls>>
            ELSE \E attempts \in [1..MAX_RETRIES -> AttemptOutcomes] :
                 LET r == generateModelData(description, plan.systemPrompt,
                                            attempts, version)
                     call == [fn |-> "generateModelData", task |-> i,
                              description |-> description,
                              systemPrompt |-> plan.systemPrompt,
                              exhausted |-> \A a \in 1..MAX_RETRIES :
                                                attempts[a] = "invalid",
                              resolved |-> r.ok]
                     updates == [modelCode |-> r.value.modelCode,
                                 billOfMaterials |-> r.value.billOfMaterials,
                                 engineeringRationale |-> r.value.engineeringRationale,
                                 status |-> ModelStatus.COMPLETED]
                 IN  IF r.ok
                     THEN /\ currentTaskResult' =
                                [t |-> "object",
                                 modelCode |-> r.value.modelCode,
                                 billOfMaterials |-> r.value.billOfMaterials,
                                 engineeringRationale |-> r.value.engineeringRationale]
                          /\ projects' = updateModel(projects, ProjectId,
                                                     plan.modelId, updates)
                          /\ calls' = calls \o <<call, [fn |-> "updateModel", task |-> i,
                                                         updates |-> updates]>>
                          /\ pc' = "complete"
                          /\ UNCHANGED error
                     ELSE /\ error' = Str(r.message)
                          /\ calls' = Append(calls, call)
                          /\ pc' = "catch"
                          /\ UNCHANGED <<projects, currentTaskResult>>
       ELSE /\ pc' = "complete"
            /\ UNCHANGED <<projects, currentTaskResult, error, calls>>
    /\ UNCHANGED <<currentModel, suspended, version, plan, i, previousTaskResult, request>>

\* mutant: the task is recorded as COMPLETED without its result
CompleteTask_StoresNoResult ==
    /\ pc = "complete"
    /\ previousTaskResult' = currentTaskResult
    /\ LET updates == [status |-> TaskStatus.COMPLETED]
       IN  /\ projects' = updateTaskInPlan(projects, ProjectId, plan.id,
                                           plan.tasks[i].id, updates)
           /\ Log([fn |-> "updateTaskInPlan", task |-> i, updates |-> updates])
    /\ i' = i + 1
    /\ pc' = "loop"
    /\ UNCHANGED <<currentModel, suspended, version, plan, currentTaskResult, error, request>>

\* mutant: the loop goes on without recording the task as COMPLETED
CompleteTask_SkipsStoreWrite ==
    /\ pc = "complete"
    /\ previousTaskResult' = currentTaskResult
    /\ i' = i + 1
    /\ pc' = "loop"
    /\ UNCHANGED <<currentModel, suspended, projects, calls, version, plan, currentTaskResult, error, request>>

\* previousTaskResult = currentTaskResult; await updateTaskInPlan(COMPLETED); i++
CompleteTask ==
    /\ pc = "complete"
    /\ previousTaskResult' = currentTaskResult
    /\ LET updates == [status |-> TaskStatus.COMPLETED, result |-> currentTaskResult]
       IN  /\ projects' = updateTaskInPlan(projects, ProjectId, plan.id,
                                           plan.tasks[i].id, updates)
           /\ Log([fn |-> "updateTaskInPlan", task |-> i, updates |-> updates])
    /\ i' = i + 1
    /\ pc' = "loop"
    /\ UNCHANGED <<currentModel, suspended, version, plan, currentTaskResult, error, request>>

\* mutant: after recording the failure the handler runs the task again
CatchTask_Retries ==
    /\ pc = "catch"
    /\ LET updates == [status |-> TaskStatus.FAILED, error |-> error]
       IN  /\ projects' = updateTaskInPlan(projects, ProjectId, plan.id,
                                           plan.tasks[i].id, updates)
           /\ Log([fn |-> "updateTaskInPlan", task |-> i, updates |-> updates])
    /\ pc' = "loop"
    /\ UNCHANGED <<currentModel, suspended, version, plan, i, previousTaskResult, currentTaskResult, error, request>>

\* catch: await updateTaskInPlan(FAILED, error)
CatchTask ==
    /\ pc = "catch"
    /\ LET updates == [status |-> TaskStatus.FAILED, error |-> error]
       IN  /\ projects' = updateTaskInPlan(projects, ProjectId, plan.id,
                                           plan.tasks[i].id, updates)
           /\ Log([fn |-> "updateTaskInPlan", task |-> i, updates |-> updates])
    /\ pc' = "catchPlan"
    /\ UNCHANGED <<currentModel, suspended, version, plan, i, previousTaskResult, currentTaskResult, error, request>>

\* mutant: the handler does not mark the plan FAILED
CatchPlan_NoWrite ==
    /\ pc = "catchPlan"
    /\ pc' = "catchModel"
    /\ UNCHANGED <<currentModel, suspended, projects, calls, version, plan, i, previousTaskResult,
                   currentTaskResult, error, request>>

\* catch: await updatePlan(FAILED)
CatchPlan ==
    /\ pc = "catchPlan"
    /\ projects' = updatePlan(projects, ProjectId, plan.id, [status |-> TaskStatus.FAILED])
    /\ Log([fn |-> "updatePlan", updates |-> [status |-> TaskStatus.FAILED]])
    /\ pc' = "catchModel"
    /\ UNCHANGED <<currentModel, suspended, version, plan, i, previousTaskResult, currentTaskResult, error, request>>

\* mutant: the handler does not return, the loop goes on with the next task
CatchModel_ContinuesLoop ==
    /\ pc = "catchModel"
    /\ LET updates == [status |-> ModelStatus.FAILED,
                       failureReason |-> FailureReason(plan.tasks[i].name, error.s)]
       IN  /\ projects' = updateModel(projects, ProjectId, plan.modelId, updates)
           /\ Log([fn |-> "updateModel", task |-> i, updates |-> updates])
    /\ i' = i + 1
    /\ pc' = "loop"
    /\ UNCHANGED <<currentModel, suspended, version, plan, previousTaskResult, currentTaskResult, error, request>>

\* mutant: the handler returns without marking the model FAILED
CatchModel_NoWrite ==
    /\ pc = "catchModel"
    /\ pc' = "done"
    /\ UNCHANGED <<currentModel, suspended, projects, calls, version, plan, i, previousTaskResult,
                   currentTaskResult, error, request>>

\* mutant: the handler writes the model FAILED and then never returns
CatchModel_Hangs ==
    /\ pc = "catchModel"
    /\ LET updates == [status |-> ModelStatus.FAILED,
                       failureReason |-> FailureReason(plan.tasks[i].name, error.s)]
       IN  /\ projects' = updateModel(projects, ProjectId, plan.modelId, updates)
           /\ Log([fn |-> "updateModel", task |-> i, updates |-> updates])
    /\ pc' = "hung"
    /\ UNCHANGED <<currentModel, suspended, version, plan, i, previousTaskResult, currentTaskResult, error, request>>

\* catch: await updateModel(FAILED, failureReason); return
CatchModel ==
    /\ pc = "catchModel"
    /\ LET updates == [status |-> ModelStatus.FAILED,
                       failureReason |-> FailureReason(plan.tasks[i].name, error.s)]
       IN  /\ projects' = updateModel(projects, ProjectId, plan.modelId, updates)
           /\ Log([fn |-> "updateModel", task |-> i, updates |-> updates])
    /\ pc' = "done"
    /\ UNCHANGED <<currentModel, suspended, version, plan, i, previousTaskResult, currentTaskResult, error, request>>

\* mutant: the executor returns without marking the plan COMPLETED
FinishPlan_NoWrite ==
    /\ pc = "loop"
    /\ i > Len(plan.tasks)
    /\ pc' = "done"
    /\ UNCHANGED <<currentModel, suspended, projects, calls, version, plan, i, previousTaskResult,
                   currentTaskResult, error, request>>

\* loop exhausted: await updatePlan(COMPLETED)
FinishPlan ==
    /\ pc = "loop"
    /\ i > Len(plan.tasks)
    /\ projects' = updatePlan(projects, ProjectId, plan.id, [status |-> TaskStatus.COMPLETED])
    /\ Log([fn |-> "updatePlan", updates |-> [status |-> TaskStatus.COMPLETED]])
    /\ pc' = "done"
    /\ UNCHANGED <<currentModel, suspended, version, plan, i, previousTaskResult, currentTaskResult, error, request>>

Next ==
    \/ handleGenerateModel
    \/ handleRefineModel
    \/ callExecutePlan
    \/ RejectPlan
    \/ StartPlan
    \/ BeginTask
    \/ RunDescription
    \/ RunGeometry
    \/ CompleteTask
    \/ CatchTask
    \/ CatchPlan
    \/ CatchModel
    \/ FinishPlan

Spec == Init /\ [][Next]_vars

\* Every step of executePlan is the continuation of an awaited updater or
\* collaborator call.  When every such call settles, the event loop runs the
\* continuation: a step of the executor that can be taken is taken.  Nothing
\* obliges the user to start a plan.
ExecutorStep ==
    \/ RejectPlan
    \/ StartPlan
    \/ BeginTask
    \/ RunDescription
    \/ RunGeometry
    \/ CompleteTask
    \/ CatchTask
    \/ CatchPlan
    \/ CatchModel
    \/ FinishPlan

FairSpec == Spec /\ WF_vars(ExecutorStep)

(* ------------------- the session around the invocation ----------------- *)
\* The .then callback of handleRefineModel.  `context` is the value
\* ProjectView got from useProjects() in the render in which the handler
\* was called, and its getProjectById closes over the projects of that
\* render (useCallback with [projects]): the callback reads those.
refineSettled ==
    /\ pc = "done"
    /\ request.continuation
    /\ LET seen == request.context
           k == FindProject(seen, ProjectId)
           found == IF k = 0 THEN {}
                    ELSE {m \in {seen[k].models[n] : n \in 1..Len(seen[k].models)} :
                             m.id = request.modelId}
       IN  IF \E m \in found : m.status = ModelStatus.COMPLETED
           THEN currentModel' \in {m \in found : m.status = ModelStatus.COMPLETED}
           ELSE UNCHANGED currentModel
    /\ pc' = "settled"
    /\ UNCHANGED <<suspended, projects, calls, version, plan, i, previousTaskResult,
                   currentTaskResult, error, request>>

\* JSON.stringify leaves out the properties whose value is undefined
\* (the optional properties of Task, ExecutionPlan, ModelOutput and of the
\* task arguments are the ones that can hold undefined)
OptionalProperties ==
    {"result", "error", "systemPrompt", "modelId", "refinementText", "refinementOf",
     "modelCode", "billOfMaterials", "engineeringRationale", "failureReason"}

DropUndefined(obj) ==
    [f \in {g \in DOMAIN obj : g \notin OptionalProperties \/ obj[g] # Undefined}
        |-> obj[f]]

StringifyTask(task) ==
    LET t == DropUndefined(task)
    IN  [t EXCEPT !.arguments = DropUndefined(@)]

StringifyPlan(pl) ==
    LET q == DropUndefined(pl)
    IN  [q EXCEPT !.tasks = [n \in DOMAIN q.tasks |-> StringifyTask(q.tasks[n])]]

\* JSON.parse(JSON.stringify(projects)), and plans: p.plans || []
ParseStored(ps) ==
    [n \in DOMAIN ps |->
        [ps[n] EXCEPT
            !.models = [m \in DOMAIN ps[n].models |-> DropUndefined(ps[n].models[m])],
            !.plans = [k \in DOMAIN ps[n].plans |-> StringifyPlan(ps[n].plans[k])]]]

\* mutant: on load, a plan found IN_PROGRESS is marked FAILED
ReloadStore_FailsInterrupted ==
    /\ pc # "reloaded"
    /\ LET Recover(pl) ==
               IF pl.status = TaskStatus.IN_PROGRESS
               THEN [pl EXCEPT !.status = TaskStatus.FAILED] ELSE pl
           loaded == ParseStored(projects)
       IN  projects' = [n \in DOMAIN loaded |->
                           [loaded[n] EXCEPT !.plans =
                               [k \in DOMAIN loaded[n].plans |->
                                   Recover(loaded[n].plans[k])]]]
    /\ currentModel' = Null
    /\ pc' = "reloaded"
    /\ UNCHANGED <<suspended, calls, version, plan, i, previousTaskResult,
                   currentTaskResult, error, request>>

\* The page is closed or reloaded: the invocation in flight is gone with
\* its locals (they are kept here only to name the plan it was running) and
\* ProjectProvider starts again from what the effect wrote to localStorage.
ReloadStore ==
    /\ pc # "reloaded"
    /\ projects' = ParseStored(projects)
    /\ currentModel' = Null
    /\ pc' = "reloaded"
    /\ UNCHANGED <<suspended, calls, version, plan, i, previousTaskResult,
                   currentTaskResult, error, request>>

NextSession ==
    \/ handleGenerateModel
    \/ handleRefineModel
    \/ callExecutePlan
    \/ RejectPlan
    \/ StartPlan
    \/ BeginTask
    \/ RunDescription
    \/ RunGeometry
    \/ CompleteTask
    \/ CatchTask
    \/ CatchPlan
    \/ CatchModel
    \/ FinishPlan
    \/ refineSettled
    \/ ReloadStore

SpecSession == Init /\ [][NextSession]_vars

(* --------------------- a context whose updater rejects ------------------ *)
\* executePlan takes its updaters from the context argument.  With a context
\* whose updateTaskInPlan returns a promise that rejects, the await that
\* records the task as COMPLETED throws inside the try block: the store is
\* not written and control enters the catch handler with the rejection.
CompleteTaskRejected ==
    /\ pc = "complete"
    /\ previousTaskResult' = currentTaskResult
    /\ LET updates == [status |-> TaskStatus.COMPLETED, result |-> currentTaskResult]
       IN  Log([fn |-> "updateTaskInPlan", task |-> i, updates |-> updates,
                rejected |-> TRUE])
    /\ error' = Str(<<"storage write rejected">>)
    /\ pc' = "catch"
    /\ UNCHANGED <<currentModel, suspended, projects, version, plan, i,
                   currentTaskResult, request>>

NextRejecting ==
    \/ handleGenerateModel
    \/ handleRefineModel
    \/ callExecutePlan
    \/ RejectPlan
    \/ StartPlan
    \/ BeginTask
    \/ RunDescription
    \/ RunGeometry
    \/ CompleteTask
    \/ CompleteTaskRejected
    \/ CatchTask
    \/ CatchPlan
    \/ CatchModel
    \/ FinishPlan

SpecRejecting == Init /\ [][NextRejecting]_vars

(* ------------------------ two invocations in flight --------------------- *)
\* executePlan is async and the handlers do not await it: while one
\* invocation waits at an await, the event loop runs the other one (or a
\* handler that starts it).  The running invocation is parked and the
\* parked one resumes.
Switch ==
    /\ pc # "idle"
    /\ suspended.pc # "done"
    /\ suspended' = Locals
    /\ plan' = suspended.plan
    /\ pc' = suspended.pc
    /\ i' = suspended.i
    /\ previousTaskResult' = suspended.previousTaskResult
    /\ currentTaskResult' = suspended.currentTaskResult
    /\ error' = suspended.error
    /\ calls' = suspended.calls
    /\ request' = suspended.request
    /\ UNCHANGED <<projects, version, currentModel>>

\* The two invocations are started by the two handlers.  What the user
\* selected and typed does not bear on how two invocations interfere, so
\* the runs with two invocations keep one selection, one refinement text and
\* the default persona; the clock reading, which makes the ids, stays free.
generateInFlight ==
    /\ handleGenerateModel
    /\ request'.inputIds = <<"input-1">>
    /\ request'.systemPrompt = Undefined

refineInFlight ==
    /\ handleRefineModel
    /\ request'.refinementText = Str(<<"raise the roof pitch">>)
    /\ request'.systemPrompt = Undefined

NextConc ==
    \/ generateInFlight
    \/ refineInFlight
    \/ StartPlan
    \/ BeginTask
    \/ RunDescription
    \/ RunGeometry
    \/ CompleteTask
    \/ CatchTask
    \/ CatchPlan
    \/ CatchModel
    \/ FinishPlan
    \/ Switch

SpecConc == Init /\ [][NextConc]_vars

(* ------------------------- reading the store --------------------------- *)
Started == pc # "idle"

\* the persisted copy of the plan being executed
StoredPlan ==
    LET plans == TheProject.plans
    IN  plans[CHOOSE k \in 1..Len(plans) : plans[k].id = plan.id]

HasTargetModel ==
    /\ Started
    /\ \E k \in 1..Len(TheProject.models) : TheProject.models[k].id = plan.modelId

\* the persisted target model of the plan being executed
TargetModel ==
    LET models == TheProject.models
    IN  models[CHOOSE k \in 1..Len(models) : models[k].id = plan.modelId]

TaskIndexes == 1..Len(StoredPlan.tasks)

AllTasksCompleted ==
    \A k \in TaskIndexes : StoredPlan.tasks[k].status = TaskStatus.COMPLETED

CallIndexes == 1..Len(calls)

IsCollaboratorCall(c) == c.fn \in {"generateModelDescription", "generateModelData"}

\* the updateModel calls made so far, in order
RECURSIVE UpdateModelCalls(_)
UpdateModelCalls(log) ==
    IF log = <<>> THEN <<>>
    ELSE (IF Head(log).fn = "updateModel" THEN <<Head(log).updates>> ELSE <<>>)
         \o UpdateModelCalls(Tail(log))

(* -------------------------------- C1 ----------------------------------- *)
\* C1: in every state during or after executePlan, the persisted plan is
\* never COMPLETED while one of its tasks has a status other than COMPLETED.
C1_CompletedPlanHasCompletedTasks ==
    Started =>
        (StoredPlan.status = TaskStatus.COMPLETED => AllTasksCompleted)

\* a two-task plan ran to the end and was marked COMPLETED
C1_Witness ==
    /\ pc = "done"
    /\ Len(StoredPlan.tasks) = 2
    /\ StoredPlan.status = TaskStatus.COMPLETED
    /\ AllTasksCompleted

(* -------------------------------- C2 ----------------------------------- *)
\* C2: once a task has failed, every task declared after it stays PENDING:
\* no updateTaskInPlan call and no generation collaborator call was ever made
\* for it (the call log is cumulative, so this covers every later state).
C2_TasksAfterFailureStayPending ==
    Started =>
        \A j \in TaskIndexes :
            (StoredPlan.tasks[j].status = TaskStatus.FAILED \/ (pc = "catch" /\ i = j)) =>
                \A k \in TaskIndexes : k > j =>
                    /\ StoredPlan.tasks[k].status = TaskStatus.PENDING
                    /\ \A n \in CallIndexes :
                           calls[n].fn \in {"updateTaskInPlan", "generateModelDescription",
                                            "generateModelData"}
                               => calls[n].task # k

\* task 1 failed, the executor has returned, task 2 exists
C2_Witness ==
    /\ pc = "done"
    /\ Len(StoredPlan.tasks) = 2
    /\ StoredPlan.tasks[1].status = TaskStatus.FAILED
    /\ StoredPlan.tasks[2].status = TaskStatus.PENDING

(* -------------------------------- C3 ----------------------------------- *)
\* C3: for a plan whose modelId is absent or empty, executePlan marks the
\* plan FAILED and returns; no task is marked IN_PROGRESS, no generation
\* collaborator is called and updateModel is never called.
C3_NoModelIdFailsPlanOnly ==
    (Started /\ plan.modelId \in {Undefined, Str(<<>>)}) =>
        /\ \A n \in CallIndexes :
               /\ ~IsCollaboratorCall(calls[n])
               /\ calls[n].fn \notin {"updateModel", "updateTaskInPlan"}
        /\ \A k \in TaskIndexes : StoredPlan.tasks[k].status = TaskStatus.PENDING
        /\ pc \in {"start", "done"}
        /\ pc = "done" => StoredPlan.status = TaskStatus.FAILED

\* a generate/refine plan without modelId was rejected
C3_Witness ==
    /\ pc = "done"
    /\ plan.modelId = Str(<<>>)
    /\ Len(plan.tasks) = 2
    /\ StoredPlan.status = TaskStatus.FAILED

(* -------------------------------- C4 ----------------------------------- *)
\* C4: at most one task of the plan is IN_PROGRESS in any state, and a task
\* has left PENDING only if the task before it is COMPLETED.
C4_OneTaskInProgress ==
    Started =>
        /\ Cardinality({k \in TaskIndexes :
                StoredPlan.tasks[k].status = TaskStatus.IN_PROGRESS}) <= 1
        /\ \A k \in TaskIndexes :
               (k > 1 /\ StoredPlan.tasks[k].status # TaskStatus.PENDING) =>
                   StoredPlan.tasks[k - 1].status = TaskStatus.COMPLETED

\* the second task is running after the first one completed
C4_Witness ==
    /\ pc = "run"
    /\ i = 2
    /\ StoredPlan.tasks[2].status = TaskStatus.IN_PROGRESS
    /\ StoredPlan.tasks[1].status = TaskStatus.COMPLETED

(* -------------------------------- C5 ----------------------------------- *)
\* C5: whatever error a task raised (sentinel description, missing upstream
\* description, rejected collaborator), when executePlan has returned the
\* failing task is FAILED with the error message, the plan is FAILED and the
\* target model is FAILED with a failureReason that contains the task's name
\* and the error message.
C5_FailureRecorded ==
    (pc = "done" /\ error # Undefined) =>
        /\ StoredPlan.tasks[i].status = TaskStatus.FAILED
        /\ StoredPlan.tasks[i].error = error
        /\ StoredPlan.status = TaskStatus.FAILED
        /\ HasTargetModel
        /\ TargetModel.status = ModelStatus.FAILED
        /\ TargetModel.failureReason.t = "string"
        /\ Includes(TargetModel.failureReason.s, plan.tasks[i].name)
        /\ Includes(TargetModel.failureReason.s, error.s)

\* the structured-generation collaborator rejected and the executor returned
C5_Witness ==
    /\ pc = "done"
    /\ error # Undefined
    /\ i = 2
    /\ \E n \in CallIndexes :
           calls[n].fn = "generateModelData" /\ ~calls[n].resolved
    /\ TargetModel.status = ModelStatus.FAILED

(* -------------------------------- C6 ----------------------------------- *)
\* the text begins with the failure sentinel "Failed"
IsSentinel(v) == v.t = "string" /\ Len(v.s) > 0 /\ Head(v.s) = "Failed"

\* the description collaborator returned a sentinel failure string
SentinelReturned(n) ==
    /\ calls[n].fn = "generateModelDescription"
    /\ IsSentinel(calls[n].returned)

\* C6: when the description collaborator returns a string beginning with the
\* failure sentinel, the structured-generation collaborator is never invoked,
\* the sentinel is never written as the model's description, and when
\* executePlan has returned task 1 is FAILED with an error containing the
\* string, task 2 is PENDING, the plan is FAILED and the model is FAILED with
\* a failure reason naming task 1.
C6_SentinelFailsFirstTask ==
    \A n \in CallIndexes : SentinelReturned(n) =>
        LET sentinel == calls[n].returned IN
        /\ \A m \in CallIndexes : calls[m].fn # "generateModelData"
        /\ \A m \in CallIndexes :
               calls[m].fn = "updateModel" =>
                   Get(calls[m].updates, "description") # sentinel
        /\ HasTargetModel => TargetModel.description # sentinel
        /\ pc = "done" =>
               /\ StoredPlan.tasks[1].status = TaskStatus.FAILED
               /\ Includes(StoredPlan.tasks[1].error.s, sentinel.s)
               /\ StoredPlan.tasks[2].status = TaskStatus.PENDING
               /\ StoredPlan.status = TaskStatus.FAILED
               /\ TargetModel.status = ModelStatus.FAILED
               /\ Includes(TargetModel.failureReason.s, plan.tasks[1].name)

\* the backend answered "Failed: network error" and the executor returned
C6_Witness ==
    /\ pc = "done"
    /\ \E n \in CallIndexes :
           /\ SentinelReturned(n)
           /\ calls[n].returned = Str(<<"Failed", ": network error">>)
    /\ StoredPlan.tasks[1].status = TaskStatus.FAILED

(* -------------------------------- C7 ----------------------------------- *)
\* both collaborators were called and neither reported a failure
BothCollaboratorsSucceeded ==
    /\ \E n \in CallIndexes :
           calls[n].fn = "generateModelDescription" /\ ~IsSentinel(calls[n].returned)
    /\ \E n \in CallIndexes :
           calls[n].fn = "generateModelData" /\ calls[n].resolved

\* C7: for a builder-produced generate plan with a modelId, when both
\* collaborators succeed, executePlan ends with task 1 COMPLETED holding the
\* description, task 2 COMPLETED holding the {modelCode, billOfMaterials,
\* engineeringRationale} bundle, the plan COMPLETED, and exactly two
\* updateModel calls: {description, GENERATING} and then {modelCode,
\* billOfMaterials, engineeringRationale, COMPLETED}.
C7_GenerateSuccess ==
    (/\ pc = "done"
     /\ request.goal = "generate"
     /\ Truthy(plan.modelId)
     /\ BothCollaboratorsSucceeded) =>
        LET t1 == StoredPlan.tasks[1]
            t2 == StoredPlan.tasks[2]
            updates == UpdateModelCalls(calls)
        IN  /\ t1.status = TaskStatus.COMPLETED
            /\ t1.result.t = "string"
            /\ \E n \in CallIndexes :
                   calls[n].fn = "generateModelDescription" /\ calls[n].returned = t1.result
            /\ t2.status = TaskStatus.COMPLETED
            /\ t2.result.t = "object"
            /\ DOMAIN t2.result =
                   {"t", "modelCode", "billOfMaterials", "engineeringRationale"}
            /\ StoredPlan.status = TaskStatus.COMPLETED
            /\ Len(updates) = 2
            /\ updates[1] = [description |-> t1.result, status |-> ModelStatus.GENERATING]
            /\ updates[2] = [modelCode |-> t2.result.modelCode,
                             billOfMaterials |-> t2.result.billOfMaterials,
                             engineeringRationale |-> t2.result.engineeringRationale,
                             status |-> ModelStatus.COMPLETED]

\* Scenario A: "A 10m steel frame", then valid model data
C7_Witness ==
    /\ pc = "done"
    /\ request.goal = "generate"
    /\ Truthy(plan.modelId)
    /\ BothCollaboratorsSucceeded
    /\ StoredPlan.tasks[1].result = Str(<<"A 10m steel frame">>)
    /\ StoredPlan.tasks[2].result = ValidModelData
    /\ TargetModel.status = ModelStatus.COMPLETED

(* -------------------------------- C8 ----------------------------------- *)
\* C8: createExecutionPlan called with goal 'generate' or 'refine' returns a
\* plan with exactly two tasks, both PENDING, and plan status PENDING (the
\* returned object, and the copy the caller persists before execution).
C8_BuilderTwoPendingTasks ==
    (Started /\ request.goal \in {"generate", "refine"}) =>
        /\ Len(plan.tasks) = 2
        /\ \A k \in 1..Len(plan.tasks) : plan.tasks[k].status = TaskStatus.PENDING
        /\ plan.status = TaskStatus.PENDING
        /\ pc = "start" => StoredPlan = plan

\* a refine plan has just been built and persisted
C8_Witness ==
    /\ pc = "start"
    /\ request.goal = "refine"
    /\ Len(StoredPlan.tasks) = 2

(* -------------------------------- C9 ----------------------------------- *)
\* C9 as stated: in every reachable state of an execution the plan is
\* COMPLETED if and only if every task is COMPLETED (for a plan with tasks).
C9_Original ==
    (Started /\ Len(StoredPlan.tasks) > 0) =>
        (StoredPlan.status = TaskStatus.COMPLETED <=> AllTasksCompleted)

\* C9 amended: the plan is COMPLETED only if every task is COMPLETED; and
\* when every task of a plan with tasks is COMPLETED the plan is COMPLETED,
\* except in the one state between the write that completes the last task
\* and the executor's next write, which completes the plan.
C9_CompletedIffAfterFinish ==
    (Started /\ Len(StoredPlan.tasks) > 0) =>
        /\ StoredPlan.status = TaskStatus.COMPLETED => AllTasksCompleted
        /\ AllTasksCompleted =>
               \/ StoredPlan.status = TaskStatus.COMPLETED
               \/ /\ pc = "loop"
                  /\ i = Len(plan.tasks) + 1
                  /\ StoredPlan.status = TaskStatus.IN_PROGRESS
        /\ (pc = "done" /\ AllTasksCompleted) => StoredPlan.status = TaskStatus.COMPLETED

\* the last task has just been marked COMPLETED, the plan not yet
C9_Witness ==
    /\ pc = "loop"
    /\ Len(StoredPlan.tasks) = 2
    /\ AllTasksCompleted
    /\ StoredPlan.status = TaskStatus.IN_PROGRESS

(* -------------------------------- C10 ---------------------------------- *)
SomeTaskFailed ==
    \E k \in TaskIndexes : StoredPlan.tasks[k].status = TaskStatus.FAILED

\* C10 as stated: no reachable state of the store has a FAILED task while
\* the plan is not FAILED.
C10_Original ==
    (Started /\ SomeTaskFailed) => StoredPlan.status = TaskStatus.FAILED

\* C10 amended: when a task is FAILED the plan is FAILED, except in the one
\* state between the write that fails the task and the executor's next
\* write, which fails the plan; once executePlan has returned, a FAILED task
\* implies a FAILED plan.
C10_FailedTaskThenFailedPlan ==
    (Started /\ SomeTaskFailed) =>
        \/ StoredPlan.status = TaskStatus.FAILED
        \/ /\ pc = "catchPlan"
           /\ StoredPlan.status = TaskStatus.IN_PROGRESS
           /\ StoredPlan.tasks[i].status = TaskStatus.FAILED

\* the executor has returned with a FAILED task and a FAILED plan
C10_Witness ==
    /\ pc = "done"
    /\ SomeTaskFailed
    /\ StoredPlan.status = TaskStatus.FAILED

(* -------------------------------- C11 ---------------------------------- *)
IsTerminal(status) == status \in {TaskStatus.COMPLETED, TaskStatus.FAILED}

\* C11: COMPLETED and FAILED are terminal: once the persisted plan or one of
\* its tasks has status COMPLETED or FAILED, no step of the execution
\* changes that status.
C11_TerminalStatusesStay ==
    [][Started =>
        /\ IsTerminal(StoredPlan.status) => StoredPlan'.status = StoredPlan.status
        /\ \A k \in TaskIndexes :
               IsTerminal(StoredPlan.tasks[k].status) =>
                   StoredPlan'.tasks[k].status = StoredPlan.tasks[k].status]_vars

\* task 1 stayed COMPLETED through the failure of task 2 and the handler
C11_Witness ==
    /\ pc = "done"
    /\ Len(StoredPlan.tasks) = 2
    /\ StoredPlan.tasks[1].status = TaskStatus.COMPLETED
    /\ StoredPlan.tasks[2].status = TaskStatus.FAILED
    /\ StoredPlan.status = TaskStatus.FAILED

(* -------------------------------- C12 ---------------------------------- *)
\* a status change allowed by PENDING -> IN_PROGRESS -> {COMPLETED | FAILED}
FollowsStateMachine(old, new) ==
    \/ new = old
    \/ old = TaskStatus.PENDING /\ new = TaskStatus.IN_PROGRESS
    \/ old = TaskStatus.IN_PROGRESS /\ IsTerminal(new)

\* C12 as stated: every status change of the plan and of its tasks follows
\* the state machine; COMPLETED and FAILED are reached from IN_PROGRESS only.
C12_Original ==
    [][Started =>
        /\ FollowsStateMachine(StoredPlan.status, StoredPlan'.status)
        /\ \A k \in TaskIndexes :
               FollowsStateMachine(StoredPlan.tasks[k].status,
                                   StoredPlan'.tasks[k].status)]_vars

\* C12 amended: every status change of a task follows the state machine,
\* and so does every status change of the plan, except that a plan whose
\* modelId is absent or empty goes from PENDING directly to FAILED.
C12_StateMachineExceptRejectedPlan ==
    [][Started =>
        /\ \/ FollowsStateMachine(StoredPlan.status, StoredPlan'.status)
           \/ /\ plan.modelId \in {Undefined, Str(<<>>)}
              /\ StoredPlan.status = TaskStatus.PENDING
              /\ StoredPlan'.status = TaskStatus.FAILED
        /\ \A k \in TaskIndexes :
               FollowsStateMachine(StoredPlan.tasks[k].status,
                                   StoredPlan'.tasks[k].status)]_vars

\* a plan without modelId has been failed without ever being IN_PROGRESS
C12_Witness ==
    /\ pc = "done"
    /\ plan.modelId = Undefined
    /\ StoredPlan.status = TaskStatus.FAILED
    /\ \A n \in CallIndexes :
           calls[n].updates.status # TaskStatus.IN_PROGRESS

(* -------------------------------- C13 ---------------------------------- *)
\* generateModelData was called and every one of its attempts failed
AllAttemptsFailed(n) ==
    /\ calls[n].fn = "generateModelData"
    /\ calls[n].exhausted

\* C13: whenever generateModelData fails on all of its attempts, the
\* geometry task and the model are never marked COMPLETED, and when
\* executePlan has returned the task, the plan and the model are FAILED.
C13_Original ==
    \A n \in CallIndexes : AllAttemptsFailed(n) =>
        /\ StoredPlan.tasks[calls[n].task].status # TaskStatus.COMPLETED
        /\ TargetModel.status # ModelStatus.COMPLETED
        /\ pc = "done" =>
               /\ StoredPlan.tasks[calls[n].task].status = TaskStatus.FAILED
               /\ StoredPlan.status = TaskStatus.FAILED
               /\ TargetModel.status = ModelStatus.FAILED

(* -------------------------------- C14 ---------------------------------- *)
\* generateModelDescription was called and caught an internal error
DescriptionErrorCaught(n) ==
    /\ calls[n].fn = "generateModelDescription"
    /\ calls[n].backend \in {"throwError", "throwOther"}

\* C14: whenever generateModelDescription catches an internal error, what it
\* returns begins with the failure sentinel, the description task is never
\* marked COMPLETED, the error text is never stored as the model's
\* description, and when executePlan has returned the task is FAILED.
C14_Original ==
    \A n \in CallIndexes : DescriptionErrorCaught(n) =>
        /\ IsSentinel(calls[n].returned)
        /\ StoredPlan.tasks[calls[n].task].status # TaskStatus.COMPLETED
        /\ HasTargetModel => TargetModel.description # calls[n].returned
        /\ pc = "done" =>
               StoredPlan.tasks[calls[n].task].status = TaskStatus.FAILED

(* -------------------------------- C15 ---------------------------------- *)
\* C15: whenever the structured-generation collaborator is invoked for a
\* task, its description argument is the result of the immediately
\* preceding task of the same execution (what the description collaborator
\* returned for it, and what was persisted as that task's result), and its
\* persona argument is the plan's systemPrompt.
C15_ResultThreading ==
    \A n \in CallIndexes : calls[n].fn = "generateModelData" =>
        LET k == calls[n].task IN
        /\ k > 1
        /\ calls[n].description = StoredPlan.tasks[k - 1].result
        /\ \E m \in 1..(n - 1) :
               /\ calls[m].fn = "generateModelDescription"
               /\ calls[m].task = k - 1
               /\ calls[m].returned = calls[n].description
        /\ calls[n].systemPrompt = request.systemPrompt

\* generateModelData was called with "A 10m steel frame" and a persona
C15_Witness ==
    /\ pc = "complete"
    /\ i = 2
    /\ request.systemPrompt # Undefined
    /\ \E n \in CallIndexes :
           /\ calls[n].fn = "generateModelData"
           /\ calls[n].description = Str(<<"A 10m steel frame">>)
           /\ calls[n].systemPrompt = request.systemPrompt

(* -------------------------------- C16 ---------------------------------- *)
MissingDescription == Str(<<"Description from previous step was not available.">>)

\* the executor is past the dispatch of geometry-class task i and the
\* previous task left no usable description (null, undefined or "")
GeometryWithoutDescription ==
    /\ Started
    /\ i \in TaskIndexes
    /\ IsGeometryTask(plan.tasks[i].name)
    /\ pc \in {"complete", "catch", "catchPlan", "catchModel", "done"}
    /\ previousTaskResult \in {Null, Undefined, Str(<<>>)}

\* C16: when a geometry-class task runs and no description is available
\* from the previous task, the structured-generation collaborator is not
\* invoked and the error is handled like a collaborator failure: task FAILED
\* with the missing-description message, plan FAILED, model FAILED.
C16_MissingDescriptionFails ==
    GeometryWithoutDescription =>
        /\ \A n \in CallIndexes :
               calls[n].fn = "generateModelData" => calls[n].task # i
        /\ pc # "complete"
        /\ error = MissingDescription
        /\ pc = "done" =>
               /\ StoredPlan.tasks[i].status = TaskStatus.FAILED
               /\ StoredPlan.tasks[i].error = MissingDescription
               /\ StoredPlan.status = TaskStatus.FAILED
               /\ TargetModel.status = ModelStatus.FAILED

\* the geometry task failed for want of a description, executePlan returned
C16_Witness ==
    /\ pc = "done"
    /\ GeometryWithoutDescription
    /\ StoredPlan.tasks[i].error = MissingDescription
    /\ TargetModel.status = ModelStatus.FAILED

(* -------------------------------- C17 ---------------------------------- *)
\* the project's inputs whose id is one of ids, and nothing else
LookedUpFrom(inputs, ids) ==
    /\ \A k \in 1..Len(inputs) :
           /\ \E j \in 1..Len(ids) : ids[j] = inputs[k].id
           /\ \E j \in 1..Len(TheProject.inputs) : TheProject.inputs[j] = inputs[k]
    /\ \A j \in 1..Len(TheProject.inputs) :
           (\E m \in 1..Len(ids) : ids[m] = TheProject.inputs[j].id) =>
               \E k \in 1..Len(inputs) : inputs[k] = TheProject.inputs[j]

\* C17: for a refine plan built with refinementText r and inputIds ids,
\* task 1's arguments hold inputIds = ids and refinementText = r, and the
\* description collaborator is invoked with r and with the inputs looked up
\* from ids.
C17_RefineForwardsText ==
    (Started /\ request.goal = "refine") =>
        /\ plan.tasks[1].arguments = [inputIds |-> request.inputIds,
                                      refinementText |-> request.refinementText]
        /\ StoredPlan.tasks[1].arguments = plan.tasks[1].arguments
        /\ \A n \in CallIndexes : calls[n].fn = "generateModelDescription" =>
               /\ calls[n].refinementText = request.refinementText
               /\ LookedUpFrom(calls[n].inputs, request.inputIds)

\* Scenario D: the collaborator was called with "raise the roof pitch"
C17_Witness ==
    /\ Started
    /\ request.goal = "refine"
    /\ request.refinementText = Str(<<"raise the roof pitch">>)
    /\ \E n \in CallIndexes :
           /\ calls[n].fn = "generateModelDescription"
           /\ calls[n].refinementText = Str(<<"raise the roof pitch">>)
           /\ Len(calls[n].inputs) > 0

(* -------------------------------- C18 ---------------------------------- *)
DistinctPlanIds ==
    \A j, k \in 1..Len(TheProject.plans) :
        j # k => TheProject.plans[j].id # TheProject.plans[k].id

\* C18: any two plans made by createExecutionPlan have distinct ids, also
\* when both were made at the same clock reading, so a step of executePlan
\* (which adds no plan) changes at most one of the project's stored plans:
\* the earlier plan keeps its status and its tasks.
C18_Original ==
    [][/\ DistinctPlanIds'
       /\ Len(TheProject.plans') = Len(TheProject.plans) =>
              \A j, k \in 1..Len(TheProject.plans) :
                  j # k => \/ TheProject.plans'[j] = TheProject.plans[j]
                           \/ TheProject.plans'[k] = TheProject.plans[k]]_vars

(* -------------------------------- C19 ---------------------------------- *)
\* what one logged updater call does to the plan it names
ApplyToPlan(p, call) ==
    CASE call.fn = "updatePlan" -> Merge(p, call.updates)
      [] call.fn = "updateTaskInPlan" ->
            [p EXCEPT !.tasks[call.task] = Merge(@, call.updates)]
      [] OTHER -> p

ApplyToModel(m, call) ==
    IF call.fn = "updateModel" THEN Merge(m, call.updates) ELSE m

\* the plan after the first n calls of log, made on their own
RECURSIVE ReplayPlan(_, _, _)
ReplayPlan(p, log, n) ==
    IF n = 0 THEN p ELSE ApplyToPlan(ReplayPlan(p, log, n - 1), log[n])

RECURSIVE ReplayModel(_, _, _)
ReplayModel(m, log, n) ==
    IF n = 0 THEN m ELSE ApplyToModel(ReplayModel(m, log, n - 1), log[n])

PlanInStore(planId) ==
    LET plans == TheProject.plans
    IN  plans[CHOOSE k \in 1..Len(plans) : plans[k].id = planId]

ModelInStore(modelId) ==
    LET models == TheProject.models
    IN  models[CHOOSE k \in 1..Len(models) : models[k].id = modelId]

\* the model as the handler of invocation L added it
ModelAsAdded(L) ==
    NewModel(L.request.modelId,
             IF L.request.goal = "generate"
             THEN Str(<<"Waiting for AI agent to start...">>)
             ELSE Str(<<"Waiting for AI agent to refine...">>),
             L.request.inputIds,
             ModelInStore(L.request.modelId).refinementOf)

\* what invocation L leaves in the store when nothing else runs: its own
\* updater calls applied, in order, to the plan and the model it was given
RunsAsAlone(L) ==
    /\ PlanInStore(L.plan.id) = ReplayPlan(L.plan, L.calls, Len(L.calls))
    /\ ModelInStore(L.plan.modelId) =
           ReplayModel(ModelAsAdded(L), L.calls, Len(L.calls))

TwoInFlight == pc # "idle" /\ suspended.pc # "idle"

DifferentPlansAndModels ==
    /\ plan.id # suspended.plan.id
    /\ plan.modelId # suspended.plan.modelId

\* C19: two executePlan invocations for plans with different ids and
\* different target models, interleaved in any way at their awaits, do not
\* affect each other: at every point, and so when both have returned, each
\* plan, its tasks and its model are what that invocation's own updater
\* calls make of them, as when the invocation runs alone.
C19_IndependentProgress ==
    /\ (pc # "idle" /\ suspended.pc = "idle") => RunsAsAlone(Locals)
    /\ (TwoInFlight /\ DifferentPlansAndModels) =>
           RunsAsAlone(Locals) /\ RunsAsAlone(suspended)

\* both invocations have returned, one plan COMPLETED and one FAILED; the
\* plan that was stored last (the head of the list) finished first, so the
\* two executions overlapped
C19_Witness ==
    /\ pc = "done"
    /\ suspended.pc = "done"
    /\ DifferentPlansAndModels
    /\ TheProject.plans[1].id = suspended.plan.id
    /\ PlanInStore(suspended.plan.id).status = TaskStatus.COMPLETED
    /\ PlanInStore(plan.id).status = TaskStatus.FAILED
    /\ ModelInStore(suspended.plan.modelId).status = ModelStatus.COMPLETED
    /\ ModelInStore(plan.modelId).status = ModelStatus.FAILED

(* -------------------------------- C20 ---------------------------------- *)
\* C20: provided every collaborator call and every updater call settles,
\* an executePlan invocation that was made eventually returns, and when it
\* has returned the stored plan's status is COMPLETED or FAILED.
C20_ReturnsWithTerminalStatus ==
    /\ (pc # "idle") ~> (pc = "done")
    /\ [](pc = "done" =>
            StoredPlan.status \in {TaskStatus.COMPLETED, TaskStatus.FAILED})

\* executePlan returned through the catch handler after the structured
\* generation had used up its attempts
C20_Witness ==
    /\ pc = "done"
    /\ version = "throwing"
    /\ StoredPlan.status = TaskStatus.FAILED
    /\ \E n \in CallIndexes :
           /\ calls[n].fn = "generateModelData"
           /\ calls[n].exhausted
           /\ ~calls[n].resolved

(* -------------------------------- C22 ---------------------------------- *)
\* C22: createExecutionPlan called with a goal other than 'generate' or
\* 'refine' returns normally: the plan has no tasks, an empty goal text and
\* status PENDING.
C22_UnsupportedGoalGivesEmptyPlan ==
    (Started /\ request.goal \notin {"generate", "refine"}) =>
        /\ plan.tasks = <<>>
        /\ plan.goal = <<>>
        /\ plan.status = TaskStatus.PENDING
        /\ plan.id = PlanId(request.now)

\* a plan built for goal 'other' was handed to executePlan
C22_Witness ==
    /\ pc = "start"
    /\ request.goal = "other"
    /\ Len(plan.tasks) = 0
    /\ StoredPlan.status = TaskStatus.PENDING

(* -------------------------------- C23 ---------------------------------- *)
IsTaskWrite(c, k, status) ==
    /\ c.fn = "updateTaskInPlan"
    /\ c.task = k
    /\ c.updates.status = status

\* C23: the executor does not retry.  In one execution a task causes at
\* most one invocation of a generation collaborator, is started at most
\* once, and is not started again after it was recorded as FAILED.
C23_NoRetry ==
    \A m, n \in CallIndexes : m < n =>
        /\ ~(/\ IsCollaboratorCall(calls[m])
             /\ IsCollaboratorCall(calls[n])
             /\ calls[m].task = calls[n].task)
        /\ \A k \in 1..Len(plan.tasks) :
               IsTaskWrite(calls[n], k, TaskStatus.IN_PROGRESS) =>
                   /\ ~IsTaskWrite(calls[m], k, TaskStatus.FAILED)
                   /\ ~IsTaskWrite(calls[m], k, TaskStatus.IN_PROGRESS)

\* the structured generation rejected; the handler made its three writes
\* and executePlan returned
C23_Witness ==
    /\ pc = "done"
    /\ \E n \in CallIndexes :
           /\ calls[n].fn = "generateModelData"
           /\ ~calls[n].resolved
           /\ Len(calls) = n + 3
           /\ IsTaskWrite(calls[n + 1], calls[n].task, TaskStatus.FAILED)

(* -------------------------------- C27 ---------------------------------- *)
MatchesDescriptionPattern(name) ==
    Includes(name, <<"Description">>) \/ Includes(name, <<"Brief">>)

MatchesGeometryPattern(name) ==
    Includes(name, <<"Code & BOM">>) \/ Includes(name, <<"Geometry & Materials">>)

\* C27: for a plan built for 'generate' or 'refine', task 1 matches only
\* the description patterns and task 2 only the geometry patterns, and the
\* executor calls generateModelDescription only for task 1 and
\* generateModelData only for task 2; task 1, once past its dispatch, has
\* caused a generateModelDescription call.
C27_DispatchAgreesWithBuilder ==
    (Started /\ request.goal \in {"generate", "refine"}) =>
        /\ Len(plan.tasks) = 2
        /\ MatchesDescriptionPattern(plan.tasks[1].name)
        /\ ~MatchesGeometryPattern(plan.tasks[1].name)
        /\ MatchesGeometryPattern(plan.tasks[2].name)
        /\ ~MatchesDescriptionPattern(plan.tasks[2].name)
        /\ \A n \in CallIndexes :
               /\ calls[n].fn = "generateModelDescription" => calls[n].task = 1
               /\ calls[n].fn = "generateModelData" => calls[n].task = 2
        /\ (i > 1 \/ (i = 1 /\ pc \in {"complete", "catch"})) =>
               \E n \in CallIndexes :
                   calls[n].fn = "generateModelDescription" /\ calls[n].task = 1

\* a refine plan whose two tasks ran on the two paths
C27_Witness ==
    /\ pc = "complete"
    /\ i = 2
    /\ request.goal = "refine"
    /\ \E m, n \in CallIndexes :
           /\ calls[m].fn = "generateModelDescription" /\ calls[m].task = 1
           /\ calls[n].fn = "generateModelData" /\ calls[n].task = 2

(* -------------------------------- C28 ---------------------------------- *)
BuiltTwoTaskPlan ==
    /\ HasTargetModel
    /\ request.goal \in {"generate", "refine"}
    /\ Len(plan.tasks) = 2

C25_Original ==
    (Started /\ request.goal \in {"generate", "refine"}) =>
        /\ DOMAIN plan.tasks[2].arguments = {}
        /\ \A n \in CallIndexes : calls[n].fn = "generateModelData" =>
               LET arguments == StoredPlan.tasks[calls[n].task].arguments
               IN  \E f \in DOMAIN arguments : arguments[f] = calls[n].description

(* -------------------------------- C30 ---------------------------------- *)
\* C30: when the description collaborator returned a value that is not a
\* sentinel and the description task is COMPLETED, the geometry task that
\* follows is run with generateModelData; it does not fail for want of a
\* description.
C30_Original ==
    (/\ BuiltTwoTaskPlan
     /\ StoredPlan.tasks[1].status = TaskStatus.COMPLETED
     /\ i = 2
     /\ pc \in {"complete", "catch", "catchPlan", "catchModel", "done"}) =>
        /\ \E n \in CallIndexes :
               calls[n].fn = "generateModelData" /\ calls[n].task = 2
        /\ error # MissingDescription

(* -------------------------------- C24 ---------------------------------- *)
\* new is old with the fields of updates set and every other field kept
ShallowMerged(old, new, updates) ==
    /\ DOMAIN new = DOMAIN old \cup DOMAIN updates
    /\ \A f \in DOMAIN new :
           new[f] = IF f \in DOMAIN updates THEN updates[f] ELSE old[f]

SameBut(old, new, field) ==
    /\ DOMAIN new = DOMAIN old
    /\ \A f \in DOMAIN old \ {field} : new[f] = old[f]

\* what the step's updater call (the last call logged) may change
FrameOfModelWrite(c) ==
    /\ TheProject'.plans = TheProject.plans
    /\ Len(TheProject'.models) = Len(TheProject.models)
    /\ \A k \in 1..Len(TheProject.models) :
           LET old == TheProject.models[k]
               new == TheProject'.models[k]
           IN  IF old.id = plan.modelId
               THEN ShallowMerged(old, new, c.updates)
               ELSE new = old

FrameOfPlanWrite(c) ==
    /\ TheProject'.models = TheProject.models
    /\ Len(TheProject'.plans) = Len(TheProject.plans)
    /\ \A k \in 1..Len(TheProject.plans) :
           LET old == TheProject.plans[k]
               new == TheProject'.plans[k]
           IN  IF old.id = plan.id
               THEN ShallowMerged(old, new, c.updates)
               ELSE new = old

FrameOfTaskWrite(c) ==
    /\ TheProject'.models = TheProject.models
    /\ Len(TheProject'.plans) = Len(TheProject.plans)
    /\ \A k \in 1..Len(TheProject.plans) :
           LET old == TheProject.plans[k]
               new == TheProject'.plans[k]
           IN  IF old.id = plan.id
               THEN /\ SameBut(old, new, "tasks")
                    /\ Len(new.tasks) = Len(old.tasks)
                    /\ \A t \in 1..Len(old.tasks) :
                           IF old.tasks[t].id = plan.tasks[c.task].id
                           THEN ShallowMerged(old.tasks[t], new.tasks[t], c.updates)
                           ELSE new.tasks[t] = old.tasks[t]
               ELSE new = old

UpdaterFrame ==
    (pc # "idle" /\ projects' # projects) =>
        LET c == calls'[Len(calls')] IN
        /\ Len(projects') = Len(projects)
        /\ \A p \in 1..Len(projects) :
               IF projects[p].id = ProjectId
               THEN SameBut(projects[p], projects'[p],
                            IF c.fn = "updateModel" THEN "models" ELSE "plans")
               ELSE projects'[p] = projects[p]
        /\ CASE c.fn = "updateModel" -> FrameOfModelWrite(c)
             [] c.fn = "updatePlan" -> FrameOfPlanWrite(c)
             [] c.fn = "updateTaskInPlan" -> FrameOfTaskWrite(c)
             [] OTHER -> FALSE

\* the geometry task failed after the description task succeeded
GeometryFailedAfterDescription ==
    /\ pc = "done"
    /\ BuiltTwoTaskPlan
    /\ suspended.pc = "idle" \/ DifferentPlansAndModels
    /\ StoredPlan.tasks[1].status = TaskStatus.COMPLETED
    /\ StoredPlan.tasks[2].status = TaskStatus.FAILED

\* C24: every write of updateModel, updatePlan and updateTaskInPlan is a
\* shallow merge into the entity the call names: the fields of the update
\* are set, its other fields keep their values, and every other model,
\* plan, task and project is unchanged.  So when the geometry task fails
\* after the description task succeeded, the model is FAILED and still has
\* the description written by task 1.
C24_ShallowMergeScopedToEntity ==
    /\ [][UpdaterFrame]_vars
    /\ [](GeometryFailedAfterDescription =>
             /\ TargetModel.status = ModelStatus.FAILED
             /\ TargetModel.description = StoredPlan.tasks[1].result)

\* two plans and three models in the project, another project beside it;
\* the running plan failed at its geometry task and the model kept the
\* description "A 10m steel frame"
C24_Witness ==
    /\ GeometryFailedAfterDescription
    /\ suspended.pc = "done"
    /\ Len(projects) = 2
    /\ Len(TheProject.models) = 3
    /\ TargetModel.status = ModelStatus.FAILED
    /\ TargetModel.description = Str(<<"A 10m steel frame">>)

(* -------------------------------- C21 ---------------------------------- *)
\* the store was reloaded and the plan that was running is IN_PROGRESS in it
StuckInProgress ==
    /\ pc = "reloaded"
    /\ plan # Null
    /\ StoredPlan.status = TaskStatus.IN_PROGRESS

C26_Original ==
    (pc = "settled" /\ TargetModel.status = ModelStatus.COMPLETED) =>
        /\ currentModel # Null
        /\ currentModel.id = plan.modelId
        /\ currentModel.status = ModelStatus.COMPLETED

(* -------------------------------- C29 ---------------------------------- *)
IsModelWrite(c, status) ==
    /\ c.fn = "updateModel"
    /\ c.updates.status = status

\* C29: once an execution has written the target model COMPLETED it never
\* afterwards writes it FAILED, also when the updater call that records the
\* geometry task as COMPLETED rejects.
C29_Original ==
    \A m, n \in CallIndexes : m < n =>
        ~(/\ IsModelWrite(calls[m], ModelStatus.COMPLETED)
          /\ IsModelWrite(calls[n], ModelStatus.FAILED))

====
